---- MODULE Spec2Model ----
(***************************************************************************)
(* Lazy per-attribute cache of IssueData (api_core.rs) and the policy      *)
(* governed Model entity (models.rs) of the issue-db API client.           *)
(*                                                                         *)
(* A Lazy<T> cell and an Option<T> are both written as a sequence of       *)
(* length at most one: <<>> is Empty / None, <<v>> is Populated / Some(v). *)
(***************************************************************************)
EXTENDS Integers, Sequences, FiniteSets, TLC

\* ---------------------------------------------------------------- bounds
\* Attribute contents are abstracted to the distinct values 1..MaxValue.
MaxValue == 2
Values == 1..MaxValue

\* The value of `vec![]`, which from_raw_data stores in issue_links.
EmptyVec == 0

\* Three of the twenty cells of IssueData, in the order update() visits
\* them; every cell is handled by the same two macros, issue_links is the
\* one cell from_raw_data initialises differently.
Attrs == {"summary", "issue_links", "status"}
AttrOrder == <<"summary", "issue_links", "status">>
RawAttrs == {"summary", "status"}

Idents == {"I1", "I2"}
Threads == {"t1", "t2"}

Option(S) == {<<>>} \cup {<<x>> : x \in S}

\* ------------------------------------------------------------ lazy cells
Lazy_new == <<>>

Lazy_get(cell) == cell

\* Faulty variant: the closure's value replaces a value that is already stored.
get_or_create_overwrite(cell, v) == <<v>>

\* lazy_init::Lazy::get_or_create: stores the value only in an Empty cell
\* and yields the cell as it is afterwards.
get_or_create(cell, v) == IF cell = <<>> THEN <<v>> ELSE cell

initialize_lazy_field(opt) ==
    IF opt = <<>> THEN Lazy_new ELSE get_or_create(Lazy_new, opt[1])

\* --------------------------------------------------------------- records
RawIssueData == [RawAttrs -> Option(Values)]

RawIssueData_default == [a \in RawAttrs |-> <<>>]

from_raw_data(id, value) ==
    [ident |-> id,
     cells |-> [a \in Attrs |->
                  IF a = "issue_links"
                  THEN initialize_lazy_field(<<EmptyVec>>)
                  ELSE initialize_lazy_field(value[a])]]

new_empty(id) == from_raw_data(id, RawIssueData_default)

IssueData == {from_raw_data(i, v) : i \in Idents, v \in RawIssueData}

\* Faulty variant: the donor's value wins over a value the target already holds.
maybe_copy_attribute_donor_wins(selfCell, otherCell) ==
    IF Lazy_get(otherCell) # <<>> THEN otherCell ELSE selfCell

maybe_copy_attribute(selfCell, otherCell) ==
    IF Lazy_get(otherCell) # <<>>
    THEN get_or_create(selfCell, otherCell[1])
    ELSE selfCell

\* Faulty variant: the merge stops after the first attribute it copied.
update_first_only(selfCells, otherCells) ==
    LET copyable == {i \in 1..Len(AttrOrder) :
                        /\ selfCells[AttrOrder[i]] = <<>>
                        /\ otherCells[AttrOrder[i]] # <<>>}
        first == IF copyable = {} THEN 0
                 ELSE CHOOSE i \in copyable : \A j \in copyable : i <= j
    IN [a \in Attrs |->
          IF first # 0 /\ a = AttrOrder[first]
          THEN otherCells[a] ELSE selfCells[a]]

\* IssueData::update(&self, other): one maybe_copy_attribute per cell.
update(selfCells, otherCells) ==
    [a \in Attrs |-> maybe_copy_attribute(selfCells[a], otherCells[a])]

\* ------------------------------------------------------- remote replies
\* What the issue-data endpoint answers: a failure (transport error or
\* non-2xx status), or a map from identifiers to raw issue data. The
\* accessors ask for one issue, so the maps hold at most one entry, for
\* the identifier asked for or for another one.
Response ==
    UNION {[D -> RawIssueData] :
              D \in {S \in SUBSET Idents : Cardinality(S) <= 1}}
Reply == {[ok |-> FALSE]} \cup {[ok |-> TRUE, data |-> d] : d \in Response}

Request(issues, attributes) == [issue_ids |-> issues, attributes |-> attributes]

\* IssueAPI::get_issue_data on a successful reply: the HashMap of records
\* built with from_raw_data, one per identifier of the reply.
get_issue_data(data) ==
    [i \in DOMAIN data |-> from_raw_data(i, data[i])]

VARIABLES
    ident,      \* IssueData.ident of the shared record
    cells,      \* its Lazy cells, by attribute
    pc,         \* per caller: "idle", "waiting" (blocked in the GET), "panicked"
    want,       \* per caller: the attribute whose accessor it is in
    remote,     \* the remote's (model_name, model_config) of the one model id
    name,       \* Model.name
    config,     \* Model.config, a CacheContainer
    data_policy,\* Model.data_policy
    mpc,        \* the handle: "idle", or "writing" (blocked in the POST)
    pend,       \* the payload of the POST the handle is about to send
    fetched,    \* successful get_model_config calls made by config(), capped
    api,        \* the IssueAPI the caller holds: <<>> or <<[token |-> ...]>>
    comments,   \* the remote's labeling comments of the one issue, by key
    handles,    \* two handles a caller holds, to compare and hash
    issue_ids,  \* the remote's mapping from "project-key" to issue id
    last        \* the step just taken: operation, requests it sent, its result

issueVars == <<ident, cells, pc, want>>
modelVars == <<remote, name, config, data_policy, mpc, pend, fetched>>
apiVars == <<api>>
commentVars == <<comments>>
identityVars == <<handles>>
findVars == <<issue_ids>>
vars == <<ident, cells, pc, want, remote, name, config, data_policy, mpc,
          pend, fetched, api, comments, handles, issue_ids, last>>

NoAttr == "-"

\* IssueAPI::new_read_only: an IssueAPI whose token is None.
ReadOnlyAPI == <<[token |-> <<>>]>>

NoPend == [kind |-> "-"]

\* No labeling comments and no issue keys on the remote, no handles held.
NoComments == <<>>
NoHandles == [kind |-> "-"]
NoIssueIds == <<>>

\* The Model handle before anything is constructed on it.
ModelUnused ==
    /\ remote = [model_name |-> 1, model_config |-> 1]
    /\ name = 1
    /\ config = <<>>
    /\ data_policy = "ReadLocalWriteNoFetch"
    /\ mpc = "idle"
    /\ pend = NoPend
    /\ fetched = 0

\* One shared record, as from_raw_data builds it, and idle callers.
Init ==
    /\ \E r \in IssueData : ident = r.ident /\ cells = r.cells
    /\ pc = [t \in Threads |-> "idle"]
    /\ want = [t \in Threads |-> NoAttr]
    /\ comments = NoComments
    /\ handles = NoHandles
    /\ issue_ids = NoIssueIds
    /\ last = [op |-> "init", sent |-> <<>>, ret |-> <<"none">>]
    /\ ModelUnused
    /\ api = ReadOnlyAPI

\* Faulty variant: a donor with another identifier is ignored.
Update_same_ident_only(other) ==
    /\ cells' = IF other.ident = ident THEN update(cells, other.cells) ELSE cells
    /\ last' = [op |-> "update", other |-> other, before |-> cells,
                sent |-> <<>>, ret |-> <<"none">>]
    /\ UNCHANGED <<ident, pc, want>>
    /\ UNCHANGED <<modelVars, apiVars, commentVars, identityVars, findVars>>

\* A caller merges an independently obtained record into the shared one.
Update(other) ==
    /\ cells' = update(cells, other.cells)
    /\ last' = [op |-> "update", other |-> other, before |-> cells,
                sent |-> <<>>, ret |-> <<"none">>]
    /\ UNCHANGED <<ident, pc, want>>
    /\ UNCHANGED <<modelVars, apiVars, commentVars, identityVars, findVars>>

\* Faulty variant: the accessor asks the remote even when the cell is Populated.
load_lazy_attribute_call_always(t, a) ==
    /\ pc[t] = "idle"
    /\ pc' = [pc EXCEPT ![t] = "waiting"]
    /\ want' = [want EXCEPT ![t] = a]
    /\ last' = [op |-> "call", t |-> t, attr |-> a,
                sent |-> <<Request(<<ident>>, <<a>>)>>, ret |-> <<"none">>]
    /\ UNCHANGED <<ident, cells>>
    /\ UNCHANGED <<modelVars, apiVars, commentVars, identityVars, findVars>>

\* load_lazy_attribute!, up to the blocking GET: a Populated cell is
\* returned at once, an Empty one sends get_issue_data([ident], [attr]).
load_lazy_attribute_call(t, a) ==
    /\ pc[t] = "idle"
    /\ IF Lazy_get(cells[a]) # <<>>
       THEN /\ last' = [op |-> "call", t |-> t, attr |-> a, sent |-> <<>>,
                        ret |-> <<"ok", cells[a][1]>>]
            /\ UNCHANGED <<pc, want>>
       ELSE /\ pc' = [pc EXCEPT ![t] = "waiting"]
            /\ want' = [want EXCEPT ![t] = a]
            /\ last' = [op |-> "call", t |-> t, attr |-> a,
                        sent |-> <<Request(<<ident>>, <<a>>)>>,
                        ret |-> <<"none">>]
    /\ UNCHANGED <<ident, cells>>
    /\ UNCHANGED <<modelVars, apiVars, commentVars, identityVars, findVars>>

\* Faulty variant: a reply without the requested data makes the accessor ask again.
load_lazy_attribute_refetch(cell, id, a, reply) ==
    IF ~reply.ok
    THEN [cell |-> cell, pc |-> "idle", sent |-> <<>>, ret |-> <<"err">>]
    ELSE LET result == get_issue_data(reply.data)
         IN IF id \notin DOMAIN result \/ result[id].cells[a] = <<>>
            THEN [cell |-> cell, pc |-> "waiting",
                  sent |-> <<Request(<<id>>, <<a>>)>>, ret |-> <<"none">>]
            ELSE LET x == get_or_create(cell, result[id].cells[a][1])
                 IN [cell |-> x, pc |-> "idle", sent |-> <<>>,
                     ret |-> <<"ok", x[1]>>]

\* Faulty variant: a failed remote call is answered with a default value that is
\* stored in the cell.
load_lazy_attribute_poison(cell, id, a, reply) ==
    IF ~reply.ok
    THEN LET x == get_or_create(cell, EmptyVec)
         IN [cell |-> x, pc |-> "idle", sent |-> <<>>, ret |-> <<"ok", x[1]>>]
    ELSE LET result == get_issue_data(reply.data)
         IN IF id \notin DOMAIN result \/ result[id].cells[a] = <<>>
            THEN [cell |-> cell, pc |-> "panicked", sent |-> <<>>,
                  ret |-> <<"panic">>]
            ELSE LET x == get_or_create(cell, result[id].cells[a][1])
                 IN [cell |-> x, pc |-> "idle", sent |-> <<>>,
                     ret |-> <<"ok", x[1]>>]

\* Faulty variant: the accessor returns the value it fetched itself.
load_lazy_attribute_own_value(cell, id, a, reply) ==
    IF ~reply.ok
    THEN [cell |-> cell, pc |-> "idle", sent |-> <<>>, ret |-> <<"err">>]
    ELSE LET result == get_issue_data(reply.data)
         IN IF id \notin DOMAIN result \/ result[id].cells[a] = <<>>
            THEN [cell |-> cell, pc |-> "panicked", sent |-> <<>>,
                  ret |-> <<"panic">>]
            ELSE LET value == result[id].cells[a][1]
                 IN [cell |-> get_or_create(cell, value), pc |-> "idle",
                     sent |-> <<>>, ret |-> <<"ok", value>>]

\* load_lazy_attribute!, from the reply on: `?` on a failure; expect() on
\* the identifier's entry and on the attribute's cell; then get_or_create,
\* whose result is what the accessor returns.
load_lazy_attribute(cell, id, a, reply) ==
    IF ~reply.ok
    THEN [cell |-> cell, pc |-> "idle", sent |-> <<>>, ret |-> <<"err">>]
    ELSE LET result == get_issue_data(reply.data)
         IN IF id \notin DOMAIN result
            THEN [cell |-> cell, pc |-> "panicked", sent |-> <<>>,
                  ret |-> <<"panic">>]
            ELSE IF Lazy_get(result[id].cells[a]) = <<>>
            THEN [cell |-> cell, pc |-> "panicked", sent |-> <<>>,
                  ret |-> <<"panic">>]
            ELSE LET value == result[id].cells[a][1]
                     x == get_or_create(cell, value)
                 IN [cell |-> x, pc |-> "idle", sent |-> <<>>,
                     ret |-> <<"ok", x[1]>>]

\* The remote's reply reaches a caller blocked in an accessor.
Return(t, reply) ==
    /\ pc[t] = "waiting"
    /\ LET a == want[t]
           o == load_lazy_attribute(cells[a], ident, a, reply)
       IN /\ cells' = [cells EXCEPT ![a] = o.cell]
          /\ pc' = [pc EXCEPT ![t] = o.pc]
          /\ want' = [want EXCEPT ![t] = IF o.pc = "waiting" THEN a ELSE NoAttr]
          /\ last' = [op |-> "return", t |-> t, attr |-> a, reply |-> reply,
                      sent |-> o.sent, ret |-> o.ret]
    /\ UNCHANGED ident
    /\ UNCHANGED <<modelVars, apiVars, commentVars, identityVars, findVars>>

\* ------------------------------------------------------------ the Model
Names == Values
Configs == Values
Policies == {"ReadLocalWriteNoFetch", "ReadFetchWriteWithFetch"}

\* The fetch counter saturates here.
MaxCount == 2

Bump(n) == IF n < MaxCount THEN n + 1 ELSE n

GetModelConfig == [endpoint |-> "GET models/id"]
PostModelConfig(n, c) ==
    [endpoint |-> "POST models/id", model_name |-> n, model_config |-> c]

\* IssueAPI::get_model_config: the remote's name and config, or a failure.
get_model_config(ok) ==
    IF ok THEN [ok |-> TRUE, model_name |-> remote.model_name,
                model_config |-> remote.model_config]
    ELSE [ok |-> FALSE]

\* IssueAPI::update_model_config: what the remote holds after the POST.
update_model_config(ok, n, c) ==
    IF ok THEN [model_name |-> n, model_config |-> c] ELSE remote

\* util::CacheContainer, by the contract of a lazy field cell: get() yields
\* the stored value, or runs the producer once and stores what it yields,
\* staying Empty when the producer fails; set() overwrites.
CacheContainer_new(opt) == opt

CacheContainer_get(cache, produced) ==
    IF cache # <<>>
    THEN [ran |-> FALSE, cache |-> cache, ret |-> <<"ok", cache[1]>>]
    ELSE IF produced.ok
         THEN [ran |-> TRUE, cache |-> <<produced.model_config>>,
               ret |-> <<"ok", produced.model_config>>]
         ELSE [ran |-> TRUE, cache |-> <<>>, ret |-> <<"err">>]

CacheContainer_set(cache, v) == <<v>>

\* Model::new, and any state the remote can be in.
InitModel ==
    /\ ident = "I1"
    /\ cells = new_empty("I1").cells
    /\ pc = [t \in Threads |-> "idle"]
    /\ want = [t \in Threads |-> NoAttr]
    /\ remote \in [model_name : Names, model_config : Configs]
    /\ name \in Names
    /\ \E c \in Option(Configs) : config = CacheContainer_new(c)
    /\ data_policy \in Policies
    /\ mpc = "idle"
    /\ pend = NoPend
    /\ fetched = 0
    /\ api = ReadOnlyAPI
    /\ comments = NoComments
    /\ handles = NoHandles
    /\ issue_ids = NoIssueIds
    /\ last = [op |-> "init", sent |-> <<>>, ret |-> <<"none">>]

\* Faulty variant: name() answers from the local name under every policy.
Model_name_local(ok) ==
    /\ mpc = "idle"
    /\ last' = [op |-> "name", sent |-> <<>>, remote_ok |-> FALSE,
                ret |-> <<"ok", name>>]
    /\ UNCHANGED <<remote, name, config, data_policy, mpc, pend, fetched>>
    /\ UNCHANGED <<issueVars, apiVars, commentVars, identityVars, findVars>>

\* Model::name
Model_name(ok) ==
    /\ mpc = "idle"
    /\ IF data_policy = "ReadFetchWriteWithFetch"
       THEN LET r == get_model_config(ok)
            IN last' = [op |-> "name", sent |-> <<GetModelConfig>>,
                        remote_ok |-> ok,
                        ret |-> IF r.ok THEN <<"ok", r.model_name>>
                                ELSE <<"err">>]
       ELSE last' = [op |-> "name", sent |-> <<>>, remote_ok |-> FALSE,
                     ret |-> <<"ok", name>>]
    /\ UNCHANGED <<remote, name, config, data_policy, mpc, pend, fetched>>
    /\ UNCHANGED <<issueVars, apiVars, commentVars, identityVars, findVars>>

\* Faulty variant: config() reads through the cache under every policy.
Model_config_cached(ok) ==
    /\ mpc = "idle"
    /\ LET g == CacheContainer_get(config, get_model_config(ok))
       IN /\ config' = g.cache
          /\ fetched' = IF g.ran /\ ok THEN Bump(fetched) ELSE fetched
          /\ last' = [op |-> "config",
                      sent |-> IF g.ran THEN <<GetModelConfig>> ELSE <<>>,
                      remote_ok |-> g.ran /\ ok, ret |-> g.ret]
    /\ UNCHANGED <<remote, name, data_policy, mpc, pend>>
    /\ UNCHANGED <<issueVars, apiVars, commentVars, identityVars, findVars>>

\* Faulty variant: config() fetches under every policy and never uses the cache.
Model_config_fetching(ok) ==
    /\ mpc = "idle"
    /\ LET r == get_model_config(ok)
       IN /\ last' = [op |-> "config", sent |-> <<GetModelConfig>>,
                      remote_ok |-> ok,
                      ret |-> IF r.ok THEN <<"ok", r.model_config>>
                              ELSE <<"err">>]
          /\ fetched' = IF ok THEN Bump(fetched) ELSE fetched
          /\ UNCHANGED config
    /\ UNCHANGED <<remote, name, data_policy, mpc, pend>>
    /\ UNCHANGED <<issueVars, apiVars, commentVars, identityVars, findVars>>

\* Model::config
Model_config(ok) ==
    /\ mpc = "idle"
    /\ IF data_policy = "ReadFetchWriteWithFetch"
       THEN LET r == get_model_config(ok)
            IN /\ last' = [op |-> "config", sent |-> <<GetModelConfig>>,
                           remote_ok |-> ok,
                           ret |-> IF r.ok THEN <<"ok", r.model_config>>
                                   ELSE <<"err">>]
               /\ fetched' = IF ok THEN Bump(fetched) ELSE fetched
               /\ UNCHANGED config
       ELSE LET g == CacheContainer_get(config, get_model_config(ok))
            IN /\ config' = g.cache
               /\ fetched' = IF g.ran /\ ok THEN Bump(fetched) ELSE fetched
               /\ last' = [op |-> "config",
                           sent |-> IF g.ran THEN <<GetModelConfig>> ELSE <<>>,
                           remote_ok |-> g.ran /\ ok, ret |-> g.ret]
    /\ UNCHANGED <<remote, name, data_policy, mpc, pend>>
    /\ UNCHANGED <<issueVars, apiVars, commentVars, identityVars, findVars>>

\* Faulty variant: the config is fetched although the cache holds one.
Model_update_name_call_always_fetch(n, ok) ==
    /\ mpc = "idle"
    /\ LET r == get_model_config(ok)
       IN IF r.ok
          THEN /\ mpc' = "writing"
               /\ config' = IF data_policy = "ReadLocalWriteNoFetch"
                            THEN <<r.model_config>> ELSE config
               /\ pend' = [kind |-> "name", model_name |-> n,
                           model_config |-> r.model_config]
               /\ last' = [op |-> "update_name_call", arg |-> n,
                           sent |-> <<GetModelConfig>>,
                           remote_ok |-> ok, ret |-> <<"none">>]
          ELSE /\ UNCHANGED <<mpc, pend, config>>
               /\ last' = [op |-> "update_name_call", arg |-> n,
                           sent |-> <<GetModelConfig>>,
                           remote_ok |-> ok, ret |-> <<"err">>]
    /\ UNCHANGED <<remote, name, data_policy, fetched>>
    /\ UNCHANGED <<issueVars, apiVars, commentVars, identityVars, findVars>>

\* Model::update_name, up to the POST: the config to send along comes from
\* the cache (fetched into it when Empty) or from a fresh fetch.
Model_update_name_call(n, ok) ==
    /\ mpc = "idle"
    /\ IF data_policy = "ReadLocalWriteNoFetch"
       THEN LET g == CacheContainer_get(config, get_model_config(ok))
            IN /\ config' = g.cache
               /\ IF g.ret[1] = "ok"
                  THEN /\ mpc' = "writing"
                       /\ pend' = [kind |-> "name", model_name |-> n,
                                   model_config |-> g.ret[2]]
                       /\ last' = [op |-> "update_name_call", arg |-> n,
                                   sent |-> IF g.ran THEN <<GetModelConfig>>
                                            ELSE <<>>,
                                   remote_ok |-> g.ran /\ ok,
                                   ret |-> <<"none">>]
                  ELSE /\ UNCHANGED <<mpc, pend>>
                       /\ last' = [op |-> "update_name_call", arg |-> n,
                                   sent |-> <<GetModelConfig>>,
                                   remote_ok |-> ok, ret |-> <<"err">>]
       ELSE LET r == get_model_config(ok)
            IN /\ UNCHANGED config
               /\ IF r.ok
                  THEN /\ mpc' = "writing"
                       /\ pend' = [kind |-> "name", model_name |-> n,
                                   model_config |-> r.model_config]
                       /\ last' = [op |-> "update_name_call", arg |-> n,
                                   sent |-> <<GetModelConfig>>,
                                   remote_ok |-> ok, ret |-> <<"none">>]
                  ELSE /\ UNCHANGED <<mpc, pend>>
                       /\ last' = [op |-> "update_name_call", arg |-> n,
                                   sent |-> <<GetModelConfig>>,
                                   remote_ok |-> ok, ret |-> <<"err">>]
    /\ UNCHANGED <<remote, name, data_policy, fetched>>
    /\ UNCHANGED <<issueVars, apiVars, commentVars, identityVars, findVars>>

\* Model::update_name, the POST and what follows: the result of
\* update_model_config is dropped, self.name is assigned, Ok(()) returned.
Model_update_name_write(ok) ==
    /\ mpc = "writing"
    /\ pend.kind = "name"
    /\ remote' = update_model_config(ok, pend.model_name, pend.model_config)
    /\ name' = pend.model_name
    /\ mpc' = "idle"
    /\ pend' = NoPend
    /\ last' = [op |-> "update_name_write", overwrote |-> remote,
                payload |-> pend,
                sent |-> <<PostModelConfig(pend.model_name, pend.model_config)>>,
                remote_ok |-> ok, ret |-> <<"ok">>]
    /\ UNCHANGED <<config, data_policy, fetched>>
    /\ UNCHANGED <<issueVars, apiVars, commentVars, identityVars, findVars>>

\* Faulty variant: a failed fetch of the name falls back to the local name.
Model_update_config_call_fallback(c, ok) ==
    /\ mpc = "idle"
    /\ LET r == get_model_config(ok)
           fetch == data_policy # "ReadLocalWriteNoFetch"
       IN /\ mpc' = "writing"
          /\ pend' = [kind |-> "config",
                      model_name |-> IF fetch /\ r.ok THEN r.model_name
                                     ELSE name,
                      model_config |-> c]
          /\ last' = [op |-> "update_config_call", arg |-> c,
                      sent |-> IF fetch THEN <<GetModelConfig>> ELSE <<>>,
                      remote_ok |-> fetch /\ ok, ret |-> <<"none">>]
    /\ UNCHANGED <<remote, name, config, data_policy, fetched>>
    /\ UNCHANGED <<issueVars, apiVars, commentVars, identityVars, findVars>>

\* Faulty variant: the name is fetched but the local name is sent.
Model_update_config_call_local_name(c, ok) ==
    /\ mpc = "idle"
    /\ LET r == get_model_config(ok)
           fetch == data_policy # "ReadLocalWriteNoFetch"
       IN IF fetch /\ ~r.ok
          THEN /\ UNCHANGED <<mpc, pend>>
               /\ last' = [op |-> "update_config_call", arg |-> c,
                           sent |-> <<GetModelConfig>>, remote_ok |-> ok,
                           ret |-> <<"err">>]
          ELSE /\ mpc' = "writing"
               /\ pend' = [kind |-> "config", model_name |-> name,
                           model_config |-> c]
               /\ last' = [op |-> "update_config_call", arg |-> c,
                           sent |-> IF fetch THEN <<GetModelConfig>> ELSE <<>>,
                           remote_ok |-> fetch /\ ok, ret |-> <<"none">>]
    /\ UNCHANGED <<remote, name, config, data_policy, fetched>>
    /\ UNCHANGED <<issueVars, apiVars, commentVars, identityVars, findVars>>

\* Model::update_config, up to the POST: the name to send along is the
\* local one, or freshly fetched; `?` returns when that fetch fails.
Model_update_config_call(c, ok) ==
    /\ mpc = "idle"
    /\ IF data_policy = "ReadLocalWriteNoFetch"
       THEN /\ mpc' = "writing"
            /\ pend' = [kind |-> "config", model_name |-> name,
                        model_config |-> c]
            /\ last' = [op |-> "update_config_call", arg |-> c, sent |-> <<>>,
                        remote_ok |-> FALSE, ret |-> <<"none">>]
       ELSE LET r == get_model_config(ok)
            IN IF r.ok
               THEN /\ mpc' = "writing"
                    /\ pend' = [kind |-> "config", model_name |-> r.model_name,
                                model_config |-> c]
                    /\ last' = [op |-> "update_config_call", arg |-> c,
                                sent |-> <<GetModelConfig>>, remote_ok |-> ok,
                                ret |-> <<"none">>]
               ELSE /\ UNCHANGED <<mpc, pend>>
                    /\ last' = [op |-> "update_config_call", arg |-> c,
                                sent |-> <<GetModelConfig>>, remote_ok |-> ok,
                                ret |-> <<"err">>]
    /\ UNCHANGED <<remote, name, config, data_policy, fetched>>
    /\ UNCHANGED <<issueVars, apiVars, commentVars, identityVars, findVars>>

\* Faulty variant: the write is sent but the cache is not set.
Model_update_config_write_no_set(ok) ==
    /\ mpc = "writing"
    /\ pend.kind = "config"
    /\ remote' = update_model_config(ok, pend.model_name, pend.model_config)
    /\ mpc' = "idle"
    /\ pend' = NoPend
    /\ last' = [op |-> "update_config_write", before |-> config,
                overwrote |-> remote, payload |-> pend,
                sent |-> <<PostModelConfig(pend.model_name, pend.model_config)>>,
                remote_ok |-> ok, ret |-> <<"ok">>]
    /\ UNCHANGED <<name, config, data_policy, fetched>>
    /\ UNCHANGED <<issueVars, apiVars, commentVars, identityVars, findVars>>

\* Faulty variant: the remote refuses a write whose name is not the one it holds.
Model_update_config_write_if_unchanged(ok) ==
    /\ mpc = "writing"
    /\ pend.kind = "config"
    /\ remote' = IF remote.model_name = pend.model_name
                 THEN update_model_config(ok, pend.model_name, pend.model_config)
                 ELSE remote
    /\ config' = CacheContainer_set(config, pend.model_config)
    /\ mpc' = "idle"
    /\ pend' = NoPend
    /\ last' = [op |-> "update_config_write", before |-> config,
                overwrote |-> remote, payload |-> pend,
                sent |-> <<PostModelConfig(pend.model_name, pend.model_config)>>,
                remote_ok |-> ok, ret |-> <<"ok">>]
    /\ UNCHANGED <<name, data_policy, fetched>>
    /\ UNCHANGED <<issueVars, apiVars, commentVars, identityVars, findVars>>

\* Model::update_config, the POST and what follows: the result of
\* update_model_config is dropped, the cache is set, Ok(()) returned.
Model_update_config_write(ok) ==
    /\ mpc = "writing"
    /\ pend.kind = "config"
    /\ remote' = update_model_config(ok, pend.model_name, pend.model_config)
    /\ config' = CacheContainer_set(config, pend.model_config)
    /\ mpc' = "idle"
    /\ pend' = NoPend
    /\ last' = [op |-> "update_config_write", before |-> config,
                overwrote |-> remote, payload |-> pend,
                sent |-> <<PostModelConfig(pend.model_name, pend.model_config)>>,
                remote_ok |-> ok, ret |-> <<"ok">>]
    /\ UNCHANGED <<name, data_policy, fetched>>
    /\ UNCHANGED <<issueVars, apiVars, commentVars, identityVars, findVars>>

\* Another client of the same remote (a second handle on the model)
\* posts a name and a config while this handle is not in a remote call.
OtherClientWrite(n, c) ==
    /\ remote' = update_model_config(TRUE, n, c)
    /\ last' = [op |-> "other_write", sent |-> <<>>, ret |-> <<"none">>]
    /\ UNCHANGED <<name, config, data_policy, mpc, pend, fetched>>
    /\ UNCHANGED <<issueVars, apiVars, commentVars, identityVars, findVars>>

NextModel ==
    \/ \E ok \in BOOLEAN : Model_name(ok)
    \/ \E ok \in BOOLEAN : Model_config(ok)
    \/ \E n \in Names, ok \in BOOLEAN : Model_update_name_call(n, ok)
    \/ \E ok \in BOOLEAN : Model_update_name_write(ok)
    \/ \E c \in Configs, ok \in BOOLEAN : Model_update_config_call(c, ok)
    \/ \E ok \in BOOLEAN : Model_update_config_write(ok)
    \/ \E n \in Names, c \in Configs : OtherClientWrite(n, c)

SpecModel == InitModel /\ [][NextModel]_vars


Next ==
    \/ \E other \in IssueData : Update(other)
    \/ \E t \in Threads, a \in Attrs : load_lazy_attribute_call(t, a)
    \/ \E t \in Threads, reply \in Reply : Return(t, reply)

Spec == Init /\ [][Next]_vars

\* ------------------------------------------------------------ IssueAPI
Tokens == Values

\* The verb each endpoint function of IssueAPI passes to its call_endpoint_*.
EndpointVerb ==
    [search |-> "Get", find_issue_id_by_key |-> "Get",
     find_issue_ids_by_keys |-> "Get", get_issue_data |-> "Get",
     get_all_tags |-> "Get", register_new_tag |-> "Post",
     get_tag_info |-> "Get", update_tag |-> "Post", delete_tag |-> "Delete",
     start_issue_review |-> "Post", finish_issue_review |-> "Post",
     get_tags_for_issue |-> "Get", add_tag_to_issue |-> "Post",
     remove_tag_from_issue |-> "Delete", bulk_add_tags |-> "Post",
     get_labeling_comments_for_issue |-> "Get",
     add_labeling_comment_to_issue |-> "Post",
     update_labeling_comment |-> "Patch",
     delete_labeling_comment |-> "Delete", get_manual_labels |-> "Get",
     update_manual_label_for_issue |-> "Post", get_all_embeddings |-> "Get",
     create_embedding |-> "Post", get_embedding |-> "Get",
     update_embedding |-> "Post", delete_embedding |-> "Delete",
     upload_embedding_binary |-> "Post", download_embedding_binary |-> "Get",
     delete_embedding_binary |-> "Delete", get_all_repos |-> "Get",
     get_projects_for_repo |-> "Get", get_all_models |-> "Get",
     create_model_config |-> "Post", get_model_config |-> "Get",
     update_model_config |-> "Post", delete_model_config |-> "Delete",
     get_versions_for_model |-> "Get", upload_model_version |-> "Post",
     download_model_version |-> "Get", delete_model_version |-> "Delete",
     update_version_description |-> "Put", get_predictions |-> "Get",
     store_predictions |-> "Post", delete_predictions |-> "Delete",
     get_performances_for_model |-> "Get", store_model_performance |-> "Post",
     get_performance_data |-> "Get", delete_performance_data |-> "Delete",
     update_performance_description |-> "Put"]

Endpoints == DOMAIN EndpointVerb

\* The two functions that read the file to upload, with `?`, before they
\* call call_endpoint_multipart.
MultipartEndpoints == {"upload_embedding_binary", "upload_model_version"}

\* What the token endpoint answers to login().
LoginReply ==
    {[kind |-> "fail"], [kind |-> "invalid"]}
        \cup {[kind |-> "token", access_token |-> t] : t \in Tokens}

\* IssueAPI::get_auth
get_auth(tok) ==
    IF tok = <<>> THEN [ok |-> FALSE, err |-> "AuthenticationError"]
    ELSE [ok |-> TRUE, value |-> tok[1]]

\* IssueAPI::build_request_base: GET carries no bearer token, the other
\* verbs take it from get_auth()?.
build_request_base(tok, verb) ==
    IF verb = "Get" THEN [ok |-> TRUE, bearer |-> <<>>]
    ELSE LET a == get_auth(tok)
         IN IF a.ok THEN [ok |-> TRUE, bearer |-> <<a.value>>]
            ELSE [ok |-> FALSE, err |-> a.err]

\* IssueAPI::call_endpoint_json / _form / _multipart / _download: build the
\* request, send it, turn an error status into a failure.
call_endpoint(tok, fn, remoteOk) ==
    LET b == build_request_base(tok, EndpointVerb[fn])
    IN IF ~b.ok
       THEN [sent |-> <<>>, ret |-> <<"err", b.err>>]
       ELSE [sent |-> <<[fn |-> fn, verb |-> EndpointVerb[fn],
                         bearer |-> b.bearer]>>,
             ret |-> IF remoteOk THEN <<"ok">> ELSE <<"err", "remote">>]

\* No IssueAPI has been handed out yet.
InitApi ==
    /\ ident = "I1"
    /\ cells = new_empty("I1").cells
    /\ pc = [t \in Threads |-> "idle"]
    /\ want = [t \in Threads |-> NoAttr]
    /\ ModelUnused
    /\ api = <<>>
    /\ comments = NoComments
    /\ handles = NoHandles
    /\ issue_ids = NoIssueIds
    /\ last = [op |-> "init", sent |-> <<>>, ret |-> <<"none">>]

\* IssueAPI::new_read_only: the client is built, or building it fails.
IssueAPI_new_read_only(buildOk) ==
    /\ api' = IF buildOk THEN ReadOnlyAPI ELSE <<>>
    /\ last' = [op |-> "new_read_only", sent |-> <<>>,
                ret |-> IF buildOk THEN <<"ok">> ELSE <<"err", "build">>]
    /\ UNCHANGED <<issueVars, modelVars, commentVars, identityVars, findVars>>

\* IssueAPI::new: new_read_only()?, then login()?, which posts the
\* credentials without a bearer token and stores the token it receives.
IssueAPI_new(buildOk, reply) ==
    /\ IF ~buildOk
       THEN /\ api' = <<>>
            /\ last' = [op |-> "new", sent |-> <<>>, ret |-> <<"err", "build">>]
       ELSE /\ api' = IF reply.kind = "token"
                      THEN <<[token |-> <<reply.access_token>>]>> ELSE <<>>
            /\ last' = [op |-> "new",
                        sent |-> <<[fn |-> "login", verb |-> "Post",
                                    bearer |-> <<>>]>>,
                        ret |-> CASE reply.kind = "token" -> <<"ok">>
                                  [] reply.kind = "fail" -> <<"err", "remote">>
                                  [] reply.kind = "invalid" -> <<"panic">>]
    /\ UNCHANGED <<issueVars, modelVars, commentVars, identityVars, findVars>>

\* Any endpoint function called on the IssueAPI at hand.
CallEndpoint(fn, fileOk, remoteOk) ==
    /\ api # <<>>
    /\ LET o == IF fn \in MultipartEndpoints /\ ~fileOk
                THEN [sent |-> <<>>, ret |-> <<"err", "io">>]
                ELSE call_endpoint(api[1].token, fn, remoteOk)
       IN last' = [op |-> "call_endpoint", fn |-> fn,
                   file_ok |-> (fn \in MultipartEndpoints => fileOk),
                   sent |-> o.sent, ret |-> o.ret]
    /\ UNCHANGED <<issueVars, modelVars, apiVars, commentVars, identityVars,
                   findVars>>

NextApi ==
    \/ \E buildOk \in BOOLEAN : IssueAPI_new_read_only(buildOk)
    \/ \E buildOk \in BOOLEAN, reply \in LoginReply : IssueAPI_new(buildOk, reply)
    \/ \E fn \in Endpoints, fileOk, remoteOk \in BOOLEAN :
          CallEndpoint(fn, fileOk, remoteOk)

SpecApi == InitApi /\ [][NextApi]_vars

\* ------------------------------------------------- labeling comments
\* A comment key is a string, written as the sequence of its characters.
KeyChars == {"+", "0", "1", "2", "3", "x"}
Digits == {"0", "1", "2", "3"}
DigitValue == [c \in Digits |->
                 IF c = "0" THEN 0 ELSE IF c = "1" THEN 1
                 ELSE IF c = "2" THEN 2 ELSE 3]
\* The keys the remote may use: 2, 10 and 33, three spellings of one, the
\* empty string and a key with a letter in it.
Keys == {<<"2">>, <<"1", "0">>, <<"3", "3">>, <<"1">>, <<"0", "1">>,
         <<"+", "1">>, <<>>, <<"1", "x">>}

MaxComments == 3

RECURSIVE KeySets(_)
KeySets(k) ==
    IF k = 0 THEN {{}}
    ELSE LET smaller == KeySets(k - 1)
         IN smaller \cup {S \cup {x} : S \in smaller, x \in Keys}

RawComment == [author : {"ada"}, comment : {"text"}]

\* CommentsResponse.comments: a HashMap from key to raw comment.
CommentMaps == UNION {[D -> RawComment] : D \in KeySets(MaxComments)}

\* The orders in which a HashMap with these keys may be iterated.
IterationOrders(D) ==
    {o \in [1..Cardinality(D) -> D] :
        \A i, j \in 1..Cardinality(D) : i # j => o[i] # o[j]}

RECURSIVE DigitsValue(_)
DigitsValue(ds) ==
    IF ds = <<>> THEN 0
    ELSE 10 * DigitsValue(SubSeq(ds, 1, Len(ds) - 1)) + DigitValue[ds[Len(ds)]]

\* str::parse::<u128>: an optional leading "+", then one or more decimal
\* digits; the keys here are far too short to exceed u128::MAX.
parse_u128(key) ==
    IF key = <<>> THEN [ok |-> FALSE, msg |-> "empty"]
    ELSE LET ds == IF key[1] = "+" THEN Tail(key) ELSE key
         IN IF ds = <<>> \/ \E i \in 1..Len(ds) : ds[i] \notin Digits
            THEN [ok |-> FALSE, msg |-> "invalid digit"]
            ELSE [ok |-> TRUE, value |-> DigitsValue(ds)]

\* pairs.sort_by_key(|p| p.0): a stable sort on the parsed key; each pair
\* goes behind the pairs before it whose key is smaller or equal.
RECURSIVE sort_by_key(_)
sort_by_key(pairs) ==
    IF pairs = <<>> THEN <<>>
    ELSE LET n == Len(pairs)
             p == pairs[n]
             sorted == sort_by_key(SubSeq(pairs, 1, n - 1))
             k == Cardinality({i \in 1..Len(sorted) : sorted[i][1] <= p[1]})
         IN SubSeq(sorted, 1, k) \o <<p>> \o SubSeq(sorted, k + 1, Len(sorted))

UnboundComment(id, raw) == [id |-> id, author |-> raw.author, text |-> raw.comment]

\* Faulty variant: the comments are ordered by their key as a string.
get_labeling_comments_for_issue_lexicographic(reply, order) ==
    IF ~reply.ok THEN <<"err", "remote">>
    ELSE LET converted == [i \in 1..Len(order) |->
                             UnboundComment(order[i], reply.comments[order[i]])]
             bad == {i \in 1..Len(converted) : ~parse_u128(converted[i].id).ok}
             Code(c) == IF c = "+" THEN 43 ELSE IF c = "x" THEN 120
                        ELSE 48 + DigitValue[c]
             StrLess(x, y) ==
                 \E i \in 1..Len(y) :
                    /\ \A j \in 1..(i - 1) : j <= Len(x) /\ x[j] = y[j]
                    /\ \/ i > Len(x)
                       \/ i <= Len(x) /\ Code(x[i]) < Code(y[i])
             rank(i) == Cardinality({j \in 1..Len(converted) :
                                       StrLess(converted[j].id, converted[i].id)})
         IN IF bad # {}
            THEN LET first == CHOOSE i \in bad : \A j \in bad : i <= j
                 IN <<"err", "IDParsingError", parse_u128(converted[first].id).msg>>
            ELSE <<"ok", [r \in 1..Len(converted) |->
                            converted[CHOOSE i \in 1..Len(converted) :
                                         rank(i) = r - 1]]>>

\* Faulty variant: a key that does not parse is skipped.
get_labeling_comments_for_issue_skipping(reply, order) ==
    IF ~reply.ok THEN <<"err", "remote">>
    ELSE LET good == SelectSeq(order, LAMBDA k : parse_u128(k).ok)
             pairs == [i \in 1..Len(good) |->
                         <<parse_u128(good[i]).value,
                           UnboundComment(good[i], reply.comments[good[i]])>>]
             sorted == sort_by_key(pairs)
         IN <<"ok", [i \in 1..Len(sorted) |-> sorted[i][2]]>>

\* IssueAPI::get_labeling_comments_for_issue after the GET: convert the
\* entries in the map's iteration order, parse every id (the first that
\* fails ends the call), sort the pairs, drop the parsed ids.
get_labeling_comments_for_issue(reply, order) ==
    IF ~reply.ok THEN <<"err", "remote">>
    ELSE LET converted == [i \in 1..Len(order) |->
                             UnboundComment(order[i], reply.comments[order[i]])]
             bad == {i \in 1..Len(converted) : ~parse_u128(converted[i].id).ok}
         IN IF bad # {}
            THEN LET first == CHOOSE i \in bad : \A j \in bad : i <= j
                 IN <<"err", "IDParsingError", parse_u128(converted[first].id).msg>>
            ELSE LET object_ids == [i \in 1..Len(converted) |->
                                      parse_u128(converted[i].id).value]
                     pairs == [i \in 1..Len(converted) |->
                                 <<object_ids[i], converted[i]>>]
                     sorted == sort_by_key(pairs)
                 IN <<"ok", [i \in 1..Len(sorted) |-> sorted[i][2]]>>

\* A read-only IssueAPI and what the remote holds; nothing has been asked yet.
InitComments ==
    /\ comments \in CommentMaps
    /\ ident = "I1"
    /\ cells = new_empty("I1").cells
    /\ pc = [t \in Threads |-> "idle"]
    /\ want = [t \in Threads |-> NoAttr]
    /\ ModelUnused
    /\ api = ReadOnlyAPI
    /\ handles = NoHandles
    /\ issue_ids = NoIssueIds
    /\ last = [op |-> "init", sent |-> <<>>, ret |-> <<"none">>]

\* One call of get_labeling_comments_for_issue: the remote fails or answers
\* with its comment map, which the client iterates in some order.
GetLabelingComments(ok, order) ==
    /\ api # <<>>
    /\ LET reply == IF ok THEN [ok |-> TRUE, comments |-> comments]
                    ELSE [ok |-> FALSE]
           o == call_endpoint(api[1].token, "get_labeling_comments_for_issue", ok)
       IN last' = [op |-> "get_labeling_comments", reply |-> reply,
                   order |-> order, sent |-> o.sent,
                   ret |-> IF o.ret[1] = "ok"
                           THEN get_labeling_comments_for_issue(reply, order)
                           ELSE o.ret]
    /\ UNCHANGED <<issueVars, modelVars, apiVars, commentVars, identityVars,
                   findVars>>

NextComments ==
    \/ GetLabelingComments(FALSE, <<>>)
    \/ \E o \in IterationOrders(DOMAIN comments) : GetLabelingComments(TRUE, o)

SpecComments == InitComments /\ [][NextComments]_vars

\* -------------------------------------------------- handle identity
ModelIds == {"m1", "m2"}
VersionIds == {"v1", "v2"}
Times == {"t0", "t1"}

\* struct Model without its api; struct ModelVersion without its api.
Model == [id : ModelIds, name : Names, config : Option(Configs),
          data_policy : Policies]
ModelVersion == [model : ModelIds, version : VersionIds, time : Times]

\* A Hasher is the sequence of the strings written to it so far.
Hasher_new == <<>>

\* Faulty variant: equality over all fields, as a derived PartialEq gives.
Model_eq_derived(self, other) ==
    /\ self.id = other.id
    /\ self.name = other.name
    /\ self.config = other.config
    /\ self.data_policy = other.data_policy

\* impl PartialEq for Model
Model_eq(self, other) == self.id = other.id

\* impl Hash for Model
Model_hash(self, state) == Append(state, self.id)

\* impl PartialEq for ModelVersion
ModelVersion_eq(self, other) ==
    self.model = other.model /\ self.version = other.version

\* impl Hash for ModelVersion: the version is written first, then the model.
ModelVersion_hash(self, state) == Append(Append(state, self.version), self.model)

\* A caller holds two Model handles or two ModelVersion handles.
InitIdentity ==
    /\ ident = "I1"
    /\ cells = new_empty("I1").cells
    /\ pc = [t \in Threads |-> "idle"]
    /\ want = [t \in Threads |-> NoAttr]
    /\ ModelUnused
    /\ api = ReadOnlyAPI
    /\ comments = NoComments
    /\ \/ \E a, b \in Model : handles = [kind |-> "Model", a |-> a, b |-> b]
       \/ \E a, b \in ModelVersion :
             handles = [kind |-> "ModelVersion", a |-> a, b |-> b]
    /\ issue_ids = NoIssueIds
    /\ last = [op |-> "init", sent |-> <<>>, ret |-> <<"none">>]

\* a == b on the two Model handles, and each hashed into a fresh Hasher.
CompareModels ==
    /\ handles.kind = "Model"
    /\ last' = [op |-> "compare_models", sent |-> <<>>,
                ret |-> <<"ok", Model_eq(handles.a, handles.b)>>,
                hash_a |-> Model_hash(handles.a, Hasher_new),
                hash_b |-> Model_hash(handles.b, Hasher_new)]
    /\ UNCHANGED <<issueVars, modelVars, apiVars, commentVars, identityVars,
                   findVars>>

\* a == b on the two ModelVersion handles, and each hashed likewise.
CompareVersions ==
    /\ handles.kind = "ModelVersion"
    /\ last' = [op |-> "compare_versions", sent |-> <<>>,
                ret |-> <<"ok", ModelVersion_eq(handles.a, handles.b)>>,
                hash_a |-> ModelVersion_hash(handles.a, Hasher_new),
                hash_b |-> ModelVersion_hash(handles.b, Hasher_new)]
    /\ UNCHANGED <<issueVars, modelVars, apiVars, commentVars, identityVars,
                   findVars>>

NextIdentity == CompareModels \/ CompareVersions

SpecIdentity == InitIdentity /\ [][NextIdentity]_vars

\* ------------------------------------------------ issue ids by keys
\* Project names and issue keys are strings, written as the sequence of
\* their characters; either may itself hold a dash.
Projects == {<<"P">>, <<"P", "-", "Q">>}
IssueKeys == {<<"1">>, <<"Q", "-", "1">>}
IssueIds == {"id1", "id2"}

MaxPairs == 2

\* format!("{}-{}", project, key)
format(project, key) == project \o <<"-">> \o key

\* The arguments a caller may pass: lists of (project, key) pairs.
IdLists == UNION {[1..n -> Projects \X IssueKeys] : n \in 0..MaxPairs}

\* IdsResponse.issue_ids: the remote knows some of the keys.
IdsResponse ==
    UNION {[D -> IssueIds] :
              D \in SUBSET {format(p, k) : p \in Projects, k \in IssueKeys}}

\* Faulty variant: a key the response lacks is left out of the list.
find_issue_ids_by_keys_skipping(ids, reply) ==
    IF ~reply.ok THEN <<"err", "remote">>
    ELSE LET keys == [i \in 1..Len(ids) |-> format(ids[i][1], ids[i][2])]
             found == SelectSeq(keys, LAMBDA k : k \in DOMAIN reply.issue_ids)
         IN <<"ok", [i \in 1..Len(found) |-> reply.issue_ids[found[i]]]>>

\* IssueAPI::find_issue_ids_by_keys after the GET: look every formatted key
\* up in input order; the first one missing ends the call with an error
\* that quotes it.
find_issue_ids_by_keys(ids, reply) ==
    IF ~reply.ok THEN <<"err", "remote">>
    ELSE LET keys == [i \in 1..Len(ids) |-> format(ids[i][1], ids[i][2])]
             missing == {i \in 1..Len(keys) : keys[i] \notin DOMAIN reply.issue_ids}
         IN IF missing # {}
            THEN LET first == CHOOSE i \in missing : \A j \in missing : i <= j
                 IN <<"err", "APIError", keys[first]>>
            ELSE <<"ok", [i \in 1..Len(keys) |-> reply.issue_ids[keys[i]]]>>

\* A read-only IssueAPI and what the remote knows; nothing has been asked.
InitFind ==
    /\ ident = "I1"
    /\ cells = new_empty("I1").cells
    /\ pc = [t \in Threads |-> "idle"]
    /\ want = [t \in Threads |-> NoAttr]
    /\ ModelUnused
    /\ api = ReadOnlyAPI
    /\ comments = NoComments
    /\ handles = NoHandles
    /\ issue_ids \in IdsResponse
    /\ last = [op |-> "init", sent |-> <<>>, ret |-> <<"none">>]

\* One call of find_issue_ids_by_keys: the remote fails or answers with
\* its mapping.
FindIssueIdsByKeys(ids, ok) ==
    /\ api # <<>>
    /\ LET reply == IF ok THEN [ok |-> TRUE, issue_ids |-> issue_ids]
                    ELSE [ok |-> FALSE]
           o == call_endpoint(api[1].token, "find_issue_ids_by_keys", ok)
       IN last' = [op |-> "find_issue_ids_by_keys", ids |-> ids,
                   reply |-> reply, sent |-> o.sent,
                   ret |-> IF o.ret[1] = "ok"
                           THEN find_issue_ids_by_keys(ids, reply)
                           ELSE o.ret]
    /\ UNCHANGED <<issueVars, modelVars, apiVars, commentVars, identityVars,
                   findVars>>

NextFind == \E ids \in IdLists, ok \in BOOLEAN : FindIssueIdsByKeys(ids, ok)

SpecFind == InitFind /\ [][NextFind]_vars

TypeOK ==
    /\ issue_ids \in IdsResponse
    /\ \/ handles = NoHandles
       \/ handles \in [kind : {"Model"}, a : Model, b : Model]
       \/ handles \in [kind : {"ModelVersion"}, a : ModelVersion, b : ModelVersion]
    /\ comments \in CommentMaps
    /\ api \in Option([token : Option(Tokens)])
    /\ remote \in [model_name : Names, model_config : Configs]
    /\ name \in Names
    /\ config \in Option(Configs)
    /\ data_policy \in Policies
    /\ mpc \in {"idle", "writing"}
    /\ fetched \in 0..MaxCount
    /\ ident \in Idents
    /\ cells \in [Attrs -> Option(Values \cup {EmptyVec})]
    /\ pc \in [Threads -> {"idle", "waiting", "panicked"}]
    /\ want \in [Threads -> Attrs \cup {NoAttr}]

\* ---------------------------------------------------------------- claims

\* C1: once a cell of the record is Populated, no accessor call (hit, miss,
\* failed or successful) and no update() with any donor changes its value.
C1_PopulatedNeverChanges ==
    [][\A a \in Attrs : cells[a] # <<>> => cells'[a] = cells[a]]_vars

\* An update() has run whose donor holds another value than the target.
C1_Witness ==
    /\ last.op = "update"
    /\ \E a \in Attrs : /\ last.before[a] # <<>>
                        /\ last.other.cells[a] # <<>>
                        /\ last.other.cells[a] # last.before[a]
                        /\ cells[a] = last.before[a]

\* C2: after A.update(B) every cell Populated in A holds its old value,
\* also when B holds another one, and every cell Empty in A and Populated
\* in B holds B's value.
C2_MergeMonotonic ==
    [][last'.op = "update" =>
         \A a \in Attrs :
            /\ cells[a] # <<>> => cells'[a] = cells[a]
            /\ (cells[a] = <<>> /\ last'.other.cells[a] # <<>>)
                  => cells'[a] = last'.other.cells[a]]_vars

\* One update() both kept a cell the donor disagrees on and filled another.
C2_Witness ==
    /\ last.op = "update"
    /\ \E a, b \in Attrs :
          /\ last.before[a] # <<>> /\ last.other.cells[a] # <<>>
          /\ last.other.cells[a] # last.before[a]
          /\ last.before[b] = <<>> /\ last.other.cells[b] # <<>>
          /\ cells[b] = last.other.cells[b]

\* C3: merging the donor a second time into the merged record changes
\* nothing: update(update(A, B), B) = update(A, B).
C3_MergeIdempotent ==
    last.op = "update" => update(cells, last.other.cells) = cells

\* An update() that filled two cells at once.
C3_Witness ==
    /\ last.op = "update"
    /\ Cardinality({a \in Attrs : last.before[a] = <<>> /\ cells[a] # <<>>}) >= 2

\* C4: an accessor sends a request iff the cell is Empty: on a Populated
\* cell nothing is sent and the cached value is returned; on an Empty cell
\* exactly one get_issue_data([ident], [attribute]) is sent, and none is
\* sent when its reply is handled.
C4_FetchIffEmpty ==
    [][/\ last'.op = "call" =>
            /\ cells[last'.attr] # <<>> =>
                  /\ last'.sent = <<>>
                  /\ last'.ret = <<"ok", cells[last'.attr][1]>>
                  /\ pc'[last'.t] = "idle"
            /\ cells[last'.attr] = <<>> =>
                  /\ last'.sent = <<Request(<<ident>>, <<last'.attr>>)>>
                  /\ pc'[last'.t] = "waiting"
       /\ last'.op = "return" => last'.sent = <<>>]_vars

\* A caller is served from the cell while the other caller still waits
\* for its own fetch of that cell.
C4_Witness ==
    /\ last.op = "call"
    /\ last.sent = <<>>
    /\ last.attr # "issue_links"
    /\ \E t \in Threads : t # last.t /\ pc[t] = "waiting" /\ want[t] = last.attr

\* The successful reply lacks the identifier or leaves the attribute Empty.
Incomplete(reply, id, a) ==
    /\ reply.ok
    /\ \/ id \notin DOMAIN reply.data
       \/ a \in RawAttrs /\ reply.data[id][a] = <<>>

\* C5: a successful reply without an entry for the identifier, or whose
\* entry leaves the requested attribute Empty, ends the access in a panic:
\* no value is returned, nothing is sent again, no cell changes.
C5_MissingAttributeFatal ==
    [][(last'.op = "return" /\ Incomplete(last'.reply, ident, last'.attr)) =>
          /\ last'.ret = <<"panic">>
          /\ last'.sent = <<>>
          /\ pc'[last'.t] = "panicked"
          /\ cells' = cells]_vars

\* A panic on a reply that has the identifier but not the attribute.
C5_Witness ==
    /\ last.op = "return"
    /\ last.ret = <<"panic">>
    /\ last.reply.ok
    /\ ident \in DOMAIN last.reply.data
    /\ cells[last.attr] = <<>>

\* C6: a failed remote call makes the accessor return a failure, send
\* nothing again and leave every cell as it was.
C6_FailureLeavesCells ==
    [][(last'.op = "return" /\ ~last'.reply.ok) =>
          /\ last'.ret = <<"err">>
          /\ last'.sent = <<>>
          /\ pc'[last'.t] = "idle"
          /\ cells' = cells]_vars

\* A failure was returned and the requested cell is still Empty.
C6_Witness ==
    /\ last.op = "return"
    /\ last.ret = <<"err">>
    /\ cells[last.attr] = <<>>
    /\ pc[last.t] = "idle"

\* C7: no two callers are ever both waiting for a fetch of the same cell
\* of the shared record, that is, one Empty cell is fetched at most once.
C7_AtMostOneFetch ==
    \A t1, t2 \in Threads :
        (t1 # t2 /\ pc[t1] = "waiting" /\ pc[t2] = "waiting")
            => want[t1] # want[t2]

\* C8: under ReadFetchWriteWithFetch every config() sends one
\* get_model_config and returns the remote's config of that moment (a
\* failure when the fetch fails); the cache is neither used nor changed.
C8_ConfigAlwaysFetches ==
    [][(last'.op = "config" /\ data_policy = "ReadFetchWriteWithFetch") =>
          /\ last'.sent = <<GetModelConfig>>
          /\ last'.remote_ok => last'.ret = <<"ok", remote.model_config>>
          /\ ~last'.remote_ok => last'.ret = <<"err">>
          /\ config' = config]_vars

\* The second fetching config() returned a value the cache does not hold.
C8_Witness ==
    /\ last.op = "config"
    /\ data_policy = "ReadFetchWriteWithFetch"
    /\ fetched >= 2
    /\ config # <<>>
    /\ last.ret[1] = "ok"
    /\ last.ret[2] # config[1]

\* C9: under ReadLocalWriteNoFetch config() fetches successfully at most
\* once per handle: with a Populated cache it sends nothing and returns
\* the cached value whatever the remote holds; with an Empty cache it
\* sends one fetch and caches its result; a Populated cache is never
\* emptied and only update_config replaces its value.
C9_ConfigFetchedOnce ==
    /\ [](data_policy = "ReadLocalWriteNoFetch" => fetched <= 1)
    /\ [][data_policy = "ReadLocalWriteNoFetch" =>
            /\ (last'.op = "config" /\ config # <<>>) =>
                  /\ last'.sent = <<>>
                  /\ last'.ret = <<"ok", config[1]>>
                  /\ fetched' = fetched
            /\ (last'.op = "config" /\ config = <<>>) =>
                  /\ last'.sent = <<GetModelConfig>>
                  /\ last'.remote_ok =>
                        /\ config' = <<remote.model_config>>
                        /\ last'.ret = <<"ok", remote.model_config>>
                  /\ ~last'.remote_ok =>
                        /\ config' = <<>>
                        /\ last'.ret = <<"err">>
            /\ config # <<>> =>
                  /\ config' # <<>>
                  /\ config' # config => last'.op = "update_config_write"]_vars

\* After the one fetch, config() returned the cached value although the
\* remote holds another one by now.
C9_Witness ==
    /\ last.op = "config"
    /\ data_policy = "ReadLocalWriteNoFetch"
    /\ last.sent = <<>>
    /\ fetched = 1
    /\ last.ret = <<"ok", config[1]>>
    /\ config[1] # remote.model_config

\* C10: under ReadFetchWriteWithFetch, when the fetch of the name fails,
\* update_config returns a failure, no write is sent or left pending, and
\* the cache, the local name and the remote are as before.
C10_WriteAtomicity ==
    [][(/\ last'.op = "update_config_call"
        /\ data_policy = "ReadFetchWriteWithFetch"
        /\ ~last'.remote_ok) =>
          /\ last'.ret = <<"err">>
          /\ last'.sent = <<GetModelConfig>>
          /\ mpc' = "idle"
          /\ pend' = NoPend
          /\ config' = config
          /\ name' = name
          /\ remote' = remote]_vars

\* update_config has just failed on the fetch of the name.
C10_Witness ==
    /\ last.op = "update_config_call"
    /\ data_policy = "ReadFetchWriteWithFetch"
    /\ last.ret = <<"err">>
    /\ mpc = "idle"

\* C11: when the write sent by update_config fails, the config cache holds
\* after the call what it held before.
C11_FailedWriteKeepsCache ==
    [][(last'.op = "update_config_write" /\ ~last'.remote_ok)
          => config' = config]_vars

\* C12: update_config and update_name return a failure whenever their
\* remote write failed.
C12_WriteFailureSurfaced ==
    (last.op \in {"update_config_write", "update_name_write"}
        /\ ~last.remote_ok) => last.ret = <<"err">>

\* C13: update_config(c) sends one write carrying c and a name: under
\* ReadLocalWriteNoFetch the local name, with no fetch before the write;
\* under ReadFetchWriteWithFetch the name returned by the one fetch made
\* before the write, whatever the local name is.
C13_UpdateConfigPayload ==
    [][/\ (last'.op = "update_config_call" /\ last'.ret = <<"none">>) =>
            /\ mpc' = "writing"
            /\ pend'.model_config = last'.arg
            /\ data_policy = "ReadLocalWriteNoFetch" =>
                  /\ last'.sent = <<>>
                  /\ pend'.model_name = name
            /\ data_policy = "ReadFetchWriteWithFetch" =>
                  /\ last'.sent = <<GetModelConfig>>
                  /\ pend'.model_name = remote.model_name
       /\ last'.op = "update_config_write" =>
            /\ last'.sent =
                  <<PostModelConfig(pend.model_name, pend.model_config)>>
            /\ mpc' = "idle"
       /\ (mpc = "writing" /\ pend.kind = "config") =>
            \/ last'.op = "update_config_write"
            \/ (last'.op = "other_write" /\ pend' = pend)]_vars

\* Under ReadFetchWriteWithFetch a write went out with a name that is not
\* the local one.
C13_Witness ==
    /\ last.op = "update_config_write"
    /\ data_policy = "ReadFetchWriteWithFetch"
    /\ last.sent[1].model_name # name

\* C14: after a successful update_config(c) under ReadLocalWriteNoFetch
\* the cache holds c, and a config() that follows returns c without a
\* fetch.
C14_WriteOverwritesCache ==
    [][data_policy = "ReadLocalWriteNoFetch" =>
         /\ (last'.op = "update_config_write" /\ last'.remote_ok) =>
               config' = <<pend.model_config>>
         /\ (/\ last.op = "update_config_write" /\ last.remote_ok
             /\ last'.op = "config") =>
               /\ last'.sent = <<>>
               /\ last'.ret = <<"ok", last.sent[1].model_config>>]_vars

\* A successful write replaced another cached value.
C14_Witness ==
    /\ last.op = "update_config_write"
    /\ data_policy = "ReadLocalWriteNoFetch"
    /\ last.remote_ok
    /\ last.before # <<>>
    /\ last.before # config
    /\ config = <<last.sent[1].model_config>>

\* C15: under ReadFetchWriteWithFetch every name(), config(), update_name()
\* and update_config() sends a get_model_config, and name() and config()
\* return what the remote holds at that fetch.
C15_NoCacheHit ==
    [][(/\ data_policy = "ReadFetchWriteWithFetch"
        /\ last'.op \in {"name", "config", "update_name_call",
                         "update_config_call"}) =>
          /\ last'.sent = <<GetModelConfig>>
          /\ (last'.op = "name" /\ last'.remote_ok) =>
                last'.ret = <<"ok", remote.model_name>>
          /\ (last'.op = "config" /\ last'.remote_ok) =>
                last'.ret = <<"ok", remote.model_config>>]_vars

\* name() returned a name that is not the locally held one.
C15_Witness ==
    /\ last.op = "name"
    /\ data_policy = "ReadFetchWriteWithFetch"
    /\ last.ret[1] = "ok"
    /\ last.ret[2] # name

\* C19: on an IssueAPI without a token every POST, PATCH, PUT
\* and DELETE call fails with an authentication error and sends nothing,
\* every GET call is sent whatever the token, and an IssueAPI that
\* IssueAPI::new returned holds a token.
C19_AuthFailure ==
    /\ last.op = "call_endpoint" =>
            /\ (EndpointVerb[last.fn] # "Get" /\ api[1].token = <<>>) =>
                  /\ last.ret = <<"err", "AuthenticationError">>
                  /\ last.sent = <<>>
            /\ EndpointVerb[last.fn] = "Get" =>
                  /\ Len(last.sent) = 1
                  /\ last.ret # <<"err", "AuthenticationError">>
    /\ last.op = "new" =>
            IF last.ret = <<"ok">> THEN api # <<>> /\ api[1].token # <<>>
            ELSE api = <<>>

\* C16: when every key parses, get_labeling_comments_for_issue returns the
\* comments of the map in ascending order of the keys read as numbers, and
\* each entry of the map exactly once.
C16_OrderRestored ==
    (last.op = "get_labeling_comments" /\ last.reply.ok) =>
        LET m == last.reply.comments
        IN (\A k \in DOMAIN m : parse_u128(k).ok) =>
              /\ last.ret[1] = "ok"
              /\ Len(last.ret[2]) = Cardinality(DOMAIN m)
              /\ {last.ret[2][i] : i \in 1..Len(last.ret[2])}
                    = {UnboundComment(k, m[k]) : k \in DOMAIN m}
              /\ \A i, j \in 1..Len(last.ret[2]) :
                    i < j => parse_u128(last.ret[2][i].id).value
                                <= parse_u128(last.ret[2][j].id).value

\* Keys 10, 2 and 33 were iterated in that order and came back as 2, 10, 33.
C16_Witness ==
    /\ last.op = "get_labeling_comments"
    /\ last.order = <<<<"1", "0">>, <<"2">>, <<"3", "3">>>>
    /\ last.ret[1] = "ok"
    /\ [i \in 1..3 |-> last.ret[2][i].id] = <<<<"2">>, <<"1", "0">>, <<"3", "3">>>>

\* C17: when a key of the map does not parse as an unsigned 128-bit
\* integer the call fails with an ID-parsing error and returns no list.
C17_BadKeyFails ==
    (/\ last.op = "get_labeling_comments"
     /\ last.reply.ok
     /\ \E k \in DOMAIN last.reply.comments : ~parse_u128(k).ok) =>
        /\ last.ret[1] = "err"
        /\ last.ret[2] = "IDParsingError"

\* The call failed on a map that also holds keys that parse.
C17_Witness ==
    /\ last.op = "get_labeling_comments"
    /\ last.ret[1] = "err"
    /\ last.ret[2] = "IDParsingError"
    /\ \E k \in DOMAIN last.reply.comments : parse_u128(k).ok
    /\ parse_u128(last.order[1]).ok

\* C18: two Model handles compare equal exactly when their ids are equal,
\* two ModelVersion handles exactly when model id and version id are both
\* equal, and handles that compare equal hash identically.
C18_IdentityById ==
    /\ last.op = "compare_models" =>
          /\ last.ret[2] <=> (handles.a.id = handles.b.id)
          /\ last.ret[2] => last.hash_a = last.hash_b
    /\ last.op = "compare_versions" =>
          /\ last.ret[2] <=> (/\ handles.a.model = handles.b.model
                              /\ handles.a.version = handles.b.version)
          /\ last.ret[2] => last.hash_a = last.hash_b

\* Two Model handles compared equal although name, cached config and
\* policy all differ.
C18_Witness ==
    /\ last.op = "compare_models"
    /\ last.ret[2]
    /\ handles.a.name # handles.b.name
    /\ handles.a.config = <<>> /\ handles.b.config # <<>>
    /\ handles.a.data_policy # handles.b.data_policy

\* C20: when an accessor's fetch succeeds, every cell that is Empty in the
\* record and Populated in the record built from the response becomes
\* Populated with the response's value, not only the requested one.
C20_ResponseMerged ==
    [][(last'.op = "return" /\ last'.ret[1] = "ok") =>
          LET fresh == get_issue_data(last'.reply.data)[ident].cells
          IN \A a \in Attrs :
                (cells[a] = <<>> /\ fresh[a] # <<>>) => cells'[a] = fresh[a]]_vars

\* C21: a record as new_empty builds it has every cell Empty, so an
\* accessor called on it, whichever attribute, sends a fetch.
C21_EmptyRecordFetches ==
    [][(last'.op = "call" /\ cells = new_empty(ident).cells) =>
          /\ \A a \in Attrs : cells[a] = <<>>
          /\ Len(last'.sent) = 1]_vars

\* C22: an accessor that comes back with a value comes back with the value
\* the cell holds, and a cell that already held a value when the reply
\* arrived keeps it: of two racing fetches one value is committed and both
\* callers return it.
C22_RaceCommitsOne ==
    [][/\ (last'.op = "return" /\ last'.ret[1] = "ok") =>
             /\ cells'[last'.attr] = <<last'.ret[2]>>
             /\ cells[last'.attr] # <<>> => cells'[last'.attr] = cells[last'.attr]
       /\ (last'.op = "call" /\ last'.ret[1] = "ok") =>
             cells'[last'.attr] = <<last'.ret[2]>>]_vars

\* A caller whose fetch brought another value than the one committed by the
\* caller it raced with returned the committed value.
C22_Witness ==
    /\ last.op = "return"
    /\ last.ret[1] = "ok"
    /\ get_issue_data(last.reply.data)[ident].cells[last.attr][1] # last.ret[2]
    /\ cells[last.attr] = <<last.ret[2]>>

\* C26: update() never changes the target's identifier and does not look
\* at the donor's: a cell Empty in the target takes the donor's value when
\* the donor has one, whatever the donor's identifier, and stays Empty
\* when the donor has none.
C26_UpdateIgnoresIdent ==
    [][last'.op = "update" =>
          /\ ident' = ident
          /\ \A a \in Attrs :
                cells[a] = <<>> => cells'[a] = last'.other.cells[a]]_vars

\* An update() with a donor of another identifier filled an Empty cell and
\* left another cell Empty.
C26_Witness ==
    /\ last.op = "update"
    /\ last.other.ident # ident
    /\ \E a \in Attrs : /\ last.before[a] = <<>>
                        /\ last.other.cells[a] # <<>>
                        /\ cells[a] = last.other.cells[a]
    /\ \E a \in Attrs : last.before[a] = <<>> /\ cells[a] = <<>>

\* C23: under ReadFetchWriteWithFetch the companion field a write carries
\* (the config with a new name, the name with a new config) is the value
\* the remote holds when the write is applied.
C23_WriteOnLatestState ==
    [][(/\ last'.op \in {"update_name_write", "update_config_write"}
        /\ last'.remote_ok
        /\ data_policy = "ReadFetchWriteWithFetch") =>
          IF pend.kind = "name"
          THEN pend.model_config = remote.model_config
          ELSE pend.model_name = remote.model_name]_vars

\* C24: under ReadLocalWriteNoFetch a write that reaches the remote is
\* applied whatever was written in between: the remote then holds exactly
\* the payload, which for a config write carries the handle's local name,
\* and the call returns success.
C24_LastWriterWins ==
    [][(/\ last'.op \in {"update_name_write", "update_config_write"}
        /\ last'.remote_ok
        /\ data_policy = "ReadLocalWriteNoFetch") =>
          /\ remote' = [model_name |-> pend.model_name,
                        model_config |-> pend.model_config]
          /\ last'.ret = <<"ok">>
          /\ pend.kind = "config" => pend.model_name = name]_vars

\* A config write went through with a local name that was no longer the
\* remote's, and the remote's name was put back to it.
C24_Witness ==
    /\ last.op = "update_config_write"
    /\ last.remote_ok
    /\ data_policy = "ReadLocalWriteNoFetch"
    /\ last.overwrote.model_name # last.payload.model_name
    /\ remote = [model_name |-> last.payload.model_name,
                 model_config |-> last.payload.model_config]

\* C25: update_name under ReadLocalWriteNoFetch sends the new name with
\* the cached config: no fetch when the cache is Populated; one fetch,
\* whose result is cached, when it is Empty; and when that fetch fails the
\* call fails, nothing is written and the local name stays.
C25_UpdateNameUsesCache ==
    [][(last'.op = "update_name_call"
           /\ data_policy = "ReadLocalWriteNoFetch") =>
          /\ name' = name /\ remote' = remote
          /\ config # <<>> =>
                /\ last'.sent = <<>>
                /\ config' = config
                /\ mpc' = "writing"
                /\ pend' = [kind |-> "name", model_name |-> last'.arg,
                            model_config |-> config[1]]
          /\ config = <<>> =>
                /\ last'.sent = <<GetModelConfig>>
                /\ IF last'.remote_ok
                   THEN /\ config' = <<remote.model_config>>
                        /\ mpc' = "writing"
                        /\ pend' = [kind |-> "name", model_name |-> last'.arg,
                                    model_config |-> remote.model_config]
                   ELSE /\ last'.ret = <<"err">>
                        /\ config' = <<>>
                        /\ mpc' = "idle"
                        /\ pend' = NoPend]_vars

\* update_name found the cache Empty, fetched the config once and went on
\* to the write with it.
C25_Witness ==
    /\ last.op = "update_name_call"
    /\ data_policy = "ReadLocalWriteNoFetch"
    /\ last.sent = <<GetModelConfig>>
    /\ last.remote_ok
    /\ mpc = "writing"
    /\ config = <<pend.model_config>>

\* C28: the list get_labeling_comments_for_issue returns is determined by
\* the remote mapping alone: iterating the map in any other order gives the
\* same list, also when two keys spell the same number.
C28_OrderDeterministic ==
    (last.op = "get_labeling_comments" /\ last.ret[1] = "ok") =>
        \A o \in IterationOrders(DOMAIN last.reply.comments) :
            get_labeling_comments_for_issue(last.reply, o) = last.ret

\* C27: find_issue_ids_by_keys answers a list as long as its input whose
\* i-th id is the one the remote maps "project-key" of the i-th pair to;
\* when the remote lacks one of the keys the call fails with an error that
\* names a missing key, and returns no list.
C27_IdsInInputOrder ==
    (last.op = "find_issue_ids_by_keys" /\ last.reply.ok) =>
        LET wanted == [i \in 1..Len(last.ids) |->
                         format(last.ids[i][1], last.ids[i][2])]
        IN IF \A i \in 1..Len(wanted) : wanted[i] \in DOMAIN issue_ids
           THEN /\ last.ret[1] = "ok"
                /\ Len(last.ret[2]) = Len(last.ids)
                /\ \A i \in 1..Len(wanted) : last.ret[2][i] = issue_ids[wanted[i]]
           ELSE /\ last.ret[1] = "err"
                /\ last.ret[2] = "APIError"
                /\ \E i \in 1..Len(wanted) : /\ last.ret[3] = wanted[i]
                                             /\ wanted[i] \notin DOMAIN issue_ids

\* Two pairs were asked for and their ids came back in the order asked,
\* the larger id first.
C27_Witness ==
    /\ last.op = "find_issue_ids_by_keys"
    /\ last.ret = <<"ok", <<"id2", "id1">>>>
    /\ issue_ids[format(last.ids[1][1], last.ids[1][2])] = "id2"
====
